---- MODULE Spec2Model ----
(***************************************************************************)
(* A model of the quickwit event bot: the UI cog (pending selections,      *)
(* join / leave, the two channel messages) and the ScheduledEvents cog      *)
(* (the native scheduled-event mirror).  Every coroutine is a task whose    *)
(* steps are the stretches of code between two suspension points (await).   *)
(***************************************************************************)
EXTENDS Integers, Sequences, FiniteSets, Bags, TLC

VARIABLES
    registration_data,   \* UI.registration_data: user -> channel -> (status, job)
    storage,             \* Storage cog: channel -> Event (with its registrations)
    scheduled_events,    \* the guild's native scheduled events: id -> record
    messages,            \* channel -> the channel's history, oldest first
    threads,             \* channel -> number of discussion threads created
    tasks,               \* the bag of running coroutines (handlers)
    last,                \* the step taken last: handler, arguments, outcome
    nops,                \* number of external notifications/interactions so far
    reliable             \* whether every guild, channel and native event of
                         \* this run is found when a handler asks for it

vars == <<registration_data, storage, scheduled_events, messages, threads,
          tasks, last, nops, reliable>>

-----------------------------------------------------------------------------
(* Bounds of the model *)

\* external stimuli (interactions, notifications) in one behaviour
MaxOps == 2
\* coroutines that may be suspended at the same time
MaxTasks == 2
\* native scheduled events the bot may create
MaxNative == 2

-----------------------------------------------------------------------------
(* Values *)

\* an optional value is a sequence of at most one element
None == <<>>
Some(x) == <<x>>
\* the value a Python variable holds: None, or the value itself
Value(o) == IF o = None THEN "None" ELSE o[1]

Users == {1, 2}
Channels == {7, 12}

\* quickwit.models.Status, in declaration order
Status == <<"Attending", "Bench", "Tentative", "Late">>
StatusSet == {Status[i] : i \in 1..Len(Status)}
ATTENDING == Status[1]
\* the statuses users pick from the status select in this model
Selectable == {Status[2], Status[3]}
\* the job types a job select offers
JobTypes == {"Tank"}
\* native scheduled-event ids the guild hands out to the bot, in this order
NativeIds == 1..MaxNative
\* a scheduled event of the guild that the bot did not create
ForeignEventId == MaxNative + 1
\* the event, and the registered user, that an earlier run may have left
PersistedChannel == CHOOSE c \in Channels : \A d \in Channels : d <= c
PersistedUser == CHOOSE u \in Users : \A v \in Users : u <= v
PersistedJob == CHOOSE j \in JobTypes : TRUE
PersistedNativeId == CHOOSE i \in NativeIds : \A j \in NativeIds : i <= j
\* an uploaded image, and the bundled default image
Images == {"upload"}
DEFAULT_IMAGE_PATH == "resources/img/default.png"
EVENT_ROLE_NAME == "Events"
GuildRoles == {"everyone", EVENT_ROLE_NAME}
\* the name an event is created with, and the names an organiser changes it to
DEFAULT_NAME == "Raid"
EventNames == {"Raid night"}
EVENT_TYPE == "FinalFantasyXIV"
ORGANISER_ID == CHOOSE u \in Users : \A v \in Users : u <= v
DESCRIPTION == "Bring food"
\* 14:00 and 15:30 of the same day, in seconds
UTC_START == 14 * 3600
UTC_END == 15 * 3600 + 1800

-----------------------------------------------------------------------------
(* Text: strings the code takes apart are sequences of characters *)

Digit == <<"0", "1", "2", "3", "4", "5", "6", "7", "8", "9">>

RECURSIVE IntToStr(_)
IntToStr(n) ==
    IF n < 10 THEN <<Digit[n + 1]>>
    ELSE Append(IntToStr(n \div 10), Digit[(n % 10) + 1])

DigitValue(ch) == (CHOOSE i \in 1..10 : Digit[i] = ch) - 1

RECURSIVE StrToIntAcc(_, _)
StrToIntAcc(s, acc) ==
    IF s = <<>> THEN acc
    ELSE StrToIntAcc(Tail(s), acc * 10 + DigitValue(Head(s)))

\* int(s)
StrToInt(s) == StrToIntAcc(s, 0)

RECURSIVE SplitAcc(_, _, _, _)
SplitAcc(s, sep, cur, parts) ==
    IF s = <<>> THEN Append(parts, cur)
    ELSE IF Head(s) = sep THEN SplitAcc(Tail(s), sep, <<>>, Append(parts, cur))
    ELSE SplitAcc(Tail(s), sep, Append(cur, Head(s)), parts)

\* str.split(sep) for a one-character separator
Split(s, sep) == SplitAcc(s, sep, <<>>, <<>>)

\* f"<#{event.channel_id}>"
Location(channel_id) == <<"<", "#">> \o IntToStr(channel_id) \o <<">">>

\* a slip: only the first digit after the '#' is read
ParseLocationOneDigit(location) == StrToInt(<<Split(location, "#")[2][1]>>)

\* int(scheduled_event.location.split('#')[1].split('>')[0])
ParseLocation(location) == StrToInt(Split(Split(location, "#")[2], ">")[1])

-----------------------------------------------------------------------------
(* quickwit.models: Registration and Event *)

Registration(user_id, status, job) ==
    [user_id |-> user_id, status |-> status, job |-> job]

NewEvent(channel_id, name) ==
    [channel_id |-> channel_id, name |-> name, event_type |-> EVENT_TYPE,
     organiser_id |-> ORGANISER_ID, description |-> DESCRIPTION,
     utc_start |-> UTC_START, utc_end |-> UTC_END,
     scheduled_event_id |-> None, registrations |-> <<>>]

-----------------------------------------------------------------------------
(* The Storage cog: a map from channel to Event; an Event carries the list  *)
(* of its registrations, at most one per user.                              *)

\* the events of the store
Tracked(st) == DOMAIN st

GetEvent(st, channel_id) == st[channel_id]

StoreEvent(st, event) ==
    [c \in Tracked(st) \cup {event.channel_id} |->
        IF c = event.channel_id THEN event ELSE st[c]]

Unregister(st, channel_id, user_id) ==
    IF channel_id \notin Tracked(st) THEN st
    ELSE [st EXCEPT ![channel_id].registrations =
            SelectSeq(@, LAMBDA r : r.user_id # user_id)]

Register(st, channel_id, registration) ==
    IF channel_id \notin Tracked(st) THEN st
    ELSE [st EXCEPT ![channel_id].registrations =
            Append(SelectSeq(@, LAMBDA r : r.user_id # registration.user_id),
                   registration)]

IsAssociatedWithEvent(st, scheduled_event_id) ==
    \E c \in Tracked(st) : st[c].scheduled_event_id = Some(scheduled_event_id)

-----------------------------------------------------------------------------
(* utils.get_emoji_by_name and utils.get_event_role *)

EMOJIS == {"Tank", "Healer", "DPS", "Duration", "FinalFantasyXIV", "Event",
           "Attending", "Organiser", "People", "Start", "Tentative", "Late",
           "Bench"}

get_emoji_by_name(name) ==
    IF name \in EMOJIS THEN <<"<:", name, ":>">> ELSE <<"?">>

get_event_role(roles) ==
    IF EVENT_ROLE_NAME \in roles THEN EVENT_ROLE_NAME ELSE "everyone"

-----------------------------------------------------------------------------
(* views.discord_message: the header and the body of an event *)

DEFAULT_DURATION_MINUTES == 60

\* str(RegistrationMessage(registration, emojis))
RegistrationMessage(registration) ==
    [status_emoji |-> get_emoji_by_name(registration.status),
     job_emoji |-> IF registration.job # None
                   THEN Some(get_emoji_by_name(registration.job[1])) ELSE None,
     status |-> registration.status,
     user_id |-> registration.user_id]

\* EventMessage._split_registrations_by_status: one list per Status, in
\* declaration order
split_registrations_by_status(registrations) ==
    [i \in 1..Len(Status) |->
        SelectSeq(registrations, LAMBDA r : r.status = Status[i])]

\* a slip: the lists are put together last status first
RECURSIVE FlattenBackwards(_)
FlattenBackwards(lists) ==
    IF lists = <<>> THEN <<>> ELSE FlattenBackwards(Tail(lists)) \o Head(lists)

RECURSIVE Flatten(_)
Flatten(lists) ==
    IF lists = <<>> THEN <<>> ELSE Head(lists) \o Flatten(Tail(lists))

\* a slip: whole minutes only (// in place of /)
duration_whole_minutes(event) ==
    [minutes |-> (event.utc_end - event.utc_start) \div 60, seconds |-> 0]

\* (utc_end - utc_start).total_seconds() / 60, as whole minutes and the
\* seconds left over
duration_minutes(event) ==
    [minutes |-> (event.utc_end - event.utc_start) \div 60,
     seconds |-> (event.utc_end - event.utc_start) % 60]

header_message(event) ==
    [emoji |-> get_emoji_by_name(event.event_type), name |-> event.name]

\* a slip: the benched are not counted as guaranteed
body_message_without_bench(event, event_role) ==
    LET split == split_registrations_by_status(event.registrations)
        guaranteed == Len(split[1])
        maximum == guaranteed + Len(split[3]) + Len(split[4])
        duration == duration_minutes(event)
        rows == Flatten(split)
    IN  [role |-> event_role,
         start_emoji |-> get_emoji_by_name("Start"),
         start |-> event.utc_start,
         organiser_emoji |-> get_emoji_by_name("Start"),
         organiser |-> event.organiser_id,
         duration |-> IF duration # [minutes |-> DEFAULT_DURATION_MINUTES,
                                     seconds |-> 0]
                      THEN Some(duration) ELSE None,
         description |-> event.description,
         guaranteed |-> guaranteed,
         maximum |-> maximum,
         lines |-> [i \in 1..Len(rows) |-> RegistrationMessage(rows[i])]]

body_message(event, event_role) ==
    LET split == split_registrations_by_status(event.registrations)
        guaranteed == Len(split[1]) + Len(split[2])
        maximum == guaranteed + Len(split[3]) + Len(split[4])
        duration == duration_minutes(event)
        rows == Flatten(split)
    IN  [role |-> event_role,
         start_emoji |-> get_emoji_by_name("Start"),
         start |-> event.utc_start,
         organiser_emoji |-> get_emoji_by_name("Start"),
         organiser |-> event.organiser_id,
         duration |-> IF duration # [minutes |-> DEFAULT_DURATION_MINUTES,
                                     seconds |-> 0]
                      THEN Some(duration) ELSE None,
         description |-> event.description,
         guaranteed |-> guaranteed,
         maximum |-> maximum,
         lines |-> [i \in 1..Len(rows) |-> RegistrationMessage(rows[i])]]

-----------------------------------------------------------------------------
(* Coroutines.  A task is one running handler: its kind, the label of the   *)
(* code it resumes at, and its local variables.                             *)

Task(kind, pc, user, channel, reg, file, ne) ==
    [kind |-> kind, pc |-> pc, user |-> user, channel |-> channel,
     reg |-> reg, file |-> file, ne |-> ne]

NoReg == <<None, None>>

AddTask(b, t) == b (+) SetToBag({t})
RemoveTask(b, t) == b (-) SetToBag({t})
Resume(b, t, pc) == AddTask(RemoveTask(b, t), [t EXCEPT !.pc = pc])

\* bot.dispatch(name, event, file): one task per listener of the two cogs
Dispatch(b, name, channel_id, file) ==
    AddTask(AddTask(b, Task("ui_" \o name, "start", None, channel_id, NoReg, file, None)),
            Task("se_" \o name, "start", None, channel_id, NoReg, file, None))

Running(kind, pc) == {t \in BagToSet(tasks) : t.kind = kind /\ t.pc = pc}

\* the tasks a bag stands for once every pending join has dispatched
RECURSIVE LoadOf(_, _)
LoadOf(b, ts) ==
    IF ts = {} THEN 0
    ELSE LET t == CHOOSE x \in ts : TRUE
         IN  CopiesIn(t, b) * (IF t.kind = "join" THEN 2 ELSE 1)
             + LoadOf(b, ts \ {t})

Load == LoadOf(tasks, BagToSet(tasks))

Step(op, user, channel, ne, outcome) ==
    [op |-> op, user |-> user, channel |-> channel, ne |-> ne,
     outcome |-> outcome]

\* the step of a select callback, with the value the user picked
Selection(op, user, channel, value) ==
    [op |-> op, user |-> user, channel |-> channel, ne |-> None,
     outcome |-> "deferred", value |-> value]

\* the interactive view is on a message of the channel
ViewPosted(channel_id) ==
    \E i \in 1..Len(messages[channel_id]) : messages[channel_id][i].view

Put(f, k, v) == [x \in DOMAIN f \cup {k} |-> IF x = k THEN v ELSE f[x]]

-----------------------------------------------------------------------------
(* cogs.ui: the pending selections and the join / leave buttons *)

\* UI._ensure_existing_registration: the cache after the call
ensure_existing_registration(rd, user_id, channel_id) ==
    LET rd1 == IF user_id \notin DOMAIN rd THEN Put(rd, user_id, <<>>) ELSE rd
    IN  IF channel_id \notin DOMAIN rd1[user_id]
        THEN [rd1 EXCEPT ![user_id] = Put(@, channel_id, NoReg)]
        ELSE rd1

\* a slip: the tuple is written as (status, None)
StatusCallbackResetsJob(user_id, channel_id, status) ==
    /\ nops < MaxOps
    /\ ViewPosted(channel_id)
    /\ LET rd == ensure_existing_registration(registration_data, user_id, channel_id)
       IN  registration_data' =
               [rd EXCEPT ![user_id][channel_id] = <<Some(status), None>>]
    /\ last' = Selection("status", Some(user_id), Some(channel_id), status)
    /\ nops' = nops + 1
    /\ UNCHANGED <<storage, scheduled_events, messages, threads, tasks>>

\* UI._status_callback
StatusCallback(user_id, channel_id, status) ==
    /\ nops < MaxOps
    /\ ViewPosted(channel_id)
    /\ LET rd == ensure_existing_registration(registration_data, user_id, channel_id)
           registration == rd[user_id][channel_id]
       IN  registration_data' =
               [rd EXCEPT ![user_id][channel_id] = <<Some(status), registration[2]>>]
    /\ last' = Selection("status", Some(user_id), Some(channel_id), status)
    /\ nops' = nops + 1
    /\ UNCHANGED <<storage, scheduled_events, messages, threads, tasks>>

\* UI._job_callback
JobCallback(user_id, channel_id, job) ==
    /\ nops < MaxOps
    /\ ViewPosted(channel_id)
    /\ LET rd == ensure_existing_registration(registration_data, user_id, channel_id)
           registration == rd[user_id][channel_id]
       IN  registration_data' =
               [rd EXCEPT ![user_id][channel_id] = <<registration[1], Some(job)>>]
    /\ last' = Selection("job", Some(user_id), Some(channel_id), job)
    /\ nops' = nops + 1
    /\ UNCHANGED <<storage, scheduled_events, messages, threads, tasks>>

\* a slip: the job slot is tested instead of the status slot
StatusMissingTestsJob(registration) == registration[2] = None

\* "Attendance status is required": registration[0] is None
StatusMissing(registration) == registration[1] = None

\* a slip: every join is committed as ATTENDING
JoinRegistrationAttending(user_id, registration) ==
    Registration(user_id, ATTENDING, registration[2])

\* Registration(interaction.user.id, registration[0], registration[1])
JoinRegistration(user_id, registration) ==
    Registration(user_id, Value(registration[1]), registration[2])

\* UI._join_callback up to its first await: the validation error, or defer()
JoinCallback(user_id, channel_id) ==
    /\ nops < MaxOps
    /\ ViewPosted(channel_id)
    /\ LET rd == ensure_existing_registration(registration_data, user_id, channel_id)
           registration == rd[user_id][channel_id]
       IN  /\ registration_data' = rd
           /\ IF StatusMissing(registration)
              THEN /\ tasks' = tasks
                   /\ last' = Step("join", Some(user_id), Some(channel_id), None,
                                   "validation_error")
              ELSE /\ Load + 2 <= MaxTasks
                   /\ tasks' = AddTask(tasks, Task("join", "register", Some(user_id),
                                                   channel_id, registration, None, None))
                   /\ last' = Step("join", Some(user_id), Some(channel_id), None,
                                   "deferred")
    /\ nops' = nops + 1
    /\ UNCHANGED <<storage, scheduled_events, messages, threads>>

\* a slip: the registration is stored and nobody is told
JoinRegisterSilently(t) ==
    /\ storage' = Register(storage, t.channel,
                           Registration(t.user[1], Value(t.reg[1]), t.reg[2]))
    /\ tasks' = RemoveTask(tasks, t)
    /\ last' = Step("join_register", t.user, Some(t.channel), None, "dispatched")
    /\ UNCHANGED <<registration_data, scheduled_events, messages, threads, nops>>

\* a slip: the selection is cleared once it is committed
JoinRegisterClearsSelection(t) ==
    /\ storage' = Register(storage, t.channel,
                           Registration(t.user[1], Value(t.reg[1]), t.reg[2]))
    /\ registration_data' = [registration_data EXCEPT ![t.user[1]][t.channel] = NoReg]
    /\ tasks' = Dispatch(RemoveTask(tasks, t), "altered", t.channel, None)
    /\ last' = Step("join_register", t.user, Some(t.channel), None, "dispatched")
    /\ UNCHANGED <<scheduled_events, messages, threads, nops>>

\* a slip: the tuple is read again after the defer, from the cache as it is then
JoinRegisterReadsCache(t) ==
    /\ storage' = Register(storage, t.channel,
                           JoinRegistration(t.user[1],
                                            registration_data[t.user[1]][t.channel]))
    /\ tasks' = Dispatch(RemoveTask(tasks, t), "altered", t.channel, None)
    /\ last' = Step("join_register", t.user, Some(t.channel), None, "dispatched")
    /\ UNCHANGED <<registration_data, scheduled_events, messages, threads, nops>>

\* UI._join_callback after defer(): register, get_event, dispatch
JoinRegister(t) ==
    /\ storage' = Register(storage, t.channel, JoinRegistration(t.user[1], t.reg))
    /\ tasks' = Dispatch(RemoveTask(tasks, t), "altered", t.channel, None)
    /\ last' = Step("join_register", t.user, Some(t.channel), None, "dispatched")
    /\ UNCHANGED <<registration_data, scheduled_events, messages, threads, nops>>

\* a slip: unregister(user_id, channel_id), the arguments the wrong way round
LeaveCallbackSwapped(user_id, channel_id) ==
    /\ nops < MaxOps
    /\ ViewPosted(channel_id)
    /\ storage' = Unregister(storage, user_id, channel_id)
    /\ last' = Step("leave", Some(user_id), Some(channel_id), None, "deferred")
    /\ nops' = nops + 1
    /\ UNCHANGED <<registration_data, scheduled_events, messages, threads, tasks>>

\* UI._leave_callback
LeaveCallback(user_id, channel_id) ==
    /\ nops < MaxOps
    /\ ViewPosted(channel_id)
    /\ storage' = Unregister(storage, channel_id, user_id)
    /\ last' = Step("leave", Some(user_id), Some(channel_id), None, "deferred")
    /\ nops' = nops + 1
    /\ UNCHANGED <<registration_data, scheduled_events, messages, threads, tasks>>

-----------------------------------------------------------------------------
(* cogs.scheduled_events: users joining and leaving the native event *)

\* a slip: the association check is left out
ResolveTargetUnchecked(scheduled_event_id, channel_found) ==
    IF ~channel_found THEN "no_channel" ELSE "resolved"

\* the first lines of both user listeners: the association check, the channel
\* id out of the location, and the channel (found or not)
ResolveTarget(scheduled_event_id, channel_found) ==
    IF ~IsAssociatedWithEvent(storage, scheduled_event_id) THEN "ignored"
    ELSE IF ~channel_found THEN "no_channel"
    ELSE "resolved"

\* ScheduledEvents.on_scheduled_event_user_add up to the await of channel.send
UserAddStart(scheduled_event_id, user_id, channel_found) ==
    /\ nops < MaxOps
    /\ scheduled_event_id \in DOMAIN scheduled_events
    /\ LET outcome == ResolveTarget(scheduled_event_id, channel_found)
       IN  /\ IF outcome = "resolved"
              THEN /\ Load + 1 <= MaxTasks
                   /\ tasks' = AddTask(tasks,
                        Task("user_add", "send", Some(user_id),
                             ParseLocation(scheduled_events[scheduled_event_id].location),
                             NoReg, None, Some(scheduled_event_id)))
              ELSE tasks' = tasks
           /\ last' = Step("user_add", Some(user_id), None, Some(scheduled_event_id),
                           outcome)
    /\ nops' = nops + 1
    /\ UNCHANGED <<registration_data, storage, scheduled_events, messages, threads>>

\* the member (or, failing that, the user) gives the display name; then
\* channel.send(f'{name} Registered through the Scheduled Event link')
UserAddSend(t) ==
    /\ messages' = [messages EXCEPT ![t.channel] = Append(@,
            [kind |-> "registered",
             content |-> [name |-> t.user[1]],
             attachment |-> None, view |-> FALSE])]
    /\ tasks' = Resume(tasks, t, "register")
    /\ last' = Step("user_add_send", t.user, Some(t.channel), t.ne, "sent")
    /\ UNCHANGED <<registration_data, storage, scheduled_events, threads, nops>>

\* a slip: the native join is stored as TENTATIVE
UserAddRegisterTentative(t) ==
    /\ storage' = Register(storage, t.channel,
                           Registration(t.user[1], Status[3], None))
    /\ tasks' = RemoveTask(tasks, t)
    /\ last' = Step("user_add_register", t.user, Some(t.channel), t.ne, "registered")
    /\ UNCHANGED <<registration_data, scheduled_events, messages, threads, nops>>

\* storage.register(channel_id, Registration(user.id, Status.ATTENDING))
UserAddRegister(t) ==
    /\ storage' = Register(storage, t.channel,
                           Registration(t.user[1], ATTENDING, None))
    /\ tasks' = RemoveTask(tasks, t)
    /\ last' = Step("user_add_register", t.user, Some(t.channel), t.ne, "registered")
    /\ UNCHANGED <<registration_data, scheduled_events, messages, threads, nops>>

\* ScheduledEvents.on_scheduled_event_user_remove up to the await of channel.send
UserRemoveStart(scheduled_event_id, user_id, channel_found) ==
    /\ nops < MaxOps
    /\ scheduled_event_id \in DOMAIN scheduled_events
    /\ LET outcome == ResolveTarget(scheduled_event_id, channel_found)
       IN  /\ IF outcome = "resolved"
              THEN /\ Load + 1 <= MaxTasks
                   /\ tasks' = AddTask(tasks,
                        Task("user_remove", "send", Some(user_id),
                             ParseLocation(scheduled_events[scheduled_event_id].location),
                             NoReg, None, Some(scheduled_event_id)))
              ELSE tasks' = tasks
           /\ last' = Step("user_remove", Some(user_id), None, Some(scheduled_event_id),
                           outcome)
    /\ nops' = nops + 1
    /\ UNCHANGED <<registration_data, storage, scheduled_events, messages, threads>>

\* the member (or, failing that, the user) gives the display name; then
\* channel.send(f'{name} Unregistered through the Scheduled Event link')
UserRemoveSend(t) ==
    /\ messages' = [messages EXCEPT ![t.channel] = Append(@,
            [kind |-> "unregistered",
             content |-> [name |-> t.user[1]],
             attachment |-> None, view |-> FALSE])]
    /\ tasks' = Resume(tasks, t, "unregister")
    /\ last' = Step("user_remove_send", t.user, Some(t.channel), t.ne, "sent")
    /\ UNCHANGED <<registration_data, storage, scheduled_events, threads, nops>>

\* storage.unregister(channel_id, user.id)
UserRemoveUnregister(t) ==
    /\ storage' = Unregister(storage, t.channel, t.user[1])
    /\ tasks' = RemoveTask(tasks, t)
    /\ last' = Step("user_remove_unregister", t.user, Some(t.channel), t.ne,
                    "unregistered")
    /\ UNCHANGED <<registration_data, scheduled_events, messages, threads, nops>>

-----------------------------------------------------------------------------
(* cogs.scheduled_events: the native scheduled event of an event *)

\* the native events the bot has created
Created == DOMAIN scheduled_events \cap NativeIds

\* ScheduledEvents.on_event_created up to the await of create_scheduled_event:
\* the linkage guard and the guild
\* a slip: the linkage guard is left out
SECreatedOutcomeUnguarded(event, guild_found) ==
    IF ~guild_found THEN "no_guild" ELSE "create"

SECreatedOutcome(event, guild_found) ==
    IF event.scheduled_event_id # None THEN "linked"
    ELSE IF ~guild_found THEN "no_guild"
    ELSE "create"

SECreatedStart(t, guild_found) ==
    /\ LET outcome == SECreatedOutcome(GetEvent(storage, t.channel), guild_found)
       IN  /\ tasks' = IF outcome = "create" THEN Resume(tasks, t, "create")
                       ELSE RemoveTask(tasks, t)
           /\ last' = Step("se_created", None, Some(t.channel), None, outcome)
    /\ UNCHANGED <<registration_data, storage, scheduled_events, messages, threads,
                   nops>>

\* guild.create_scheduled_event(...): the guild answers with a new native event
SECreatedCreate(t) ==
    /\ Created # NativeIds
    /\ LET id == Cardinality(Created) + 1
           event == GetEvent(storage, t.channel)
       IN  /\ scheduled_events' = Put(scheduled_events, id,
                [name |-> event.name, description |-> event.description,
                 location |-> Location(event.channel_id),
                 start_time |-> event.utc_start, end_time |-> event.utc_end,
                 image |-> IF t.file = None THEN DEFAULT_IMAGE_PATH ELSE t.file[1]])
           /\ tasks' = AddTask(RemoveTask(tasks, t),
                               [t EXCEPT !.pc = "store", !.ne = Some(id)])
           /\ last' = Step("se_created_create", None, Some(t.channel), Some(id),
                           "created")
    /\ UNCHANGED <<registration_data, storage, messages, threads, nops>>

\* a slip: the id of the new native event is dropped
SECreatedStoreForgets(t) ==
    /\ storage' = StoreEvent(storage, GetEvent(storage, t.channel))
    /\ tasks' = RemoveTask(tasks, t)
    /\ last' = Step("se_created_store", None, Some(t.channel), t.ne, "stored")
    /\ UNCHANGED <<registration_data, scheduled_events, messages, threads, nops>>

\* event.scheduled_event_id = scheduled_event.id; storage.store_event(event)
SECreatedStore(t) ==
    /\ storage' = StoreEvent(storage,
            [GetEvent(storage, t.channel) EXCEPT !.scheduled_event_id = t.ne])
    /\ tasks' = RemoveTask(tasks, t)
    /\ last' = Step("se_created_store", None, Some(t.channel), t.ne, "stored")
    /\ UNCHANGED <<registration_data, scheduled_events, messages, threads, nops>>

\* ScheduledEvents.on_event_altered up to the edit: the linkage, the guild and
\* the linked native event
SEAlteredOutcome(event, guild_found, fetched) ==
    IF event.scheduled_event_id = None THEN "not_linked"
    ELSE IF ~guild_found THEN "no_guild"
    ELSE IF ~(fetched /\ event.scheduled_event_id[1] \in DOMAIN scheduled_events)
         THEN "no_scheduled_event"
    ELSE "edit"

SEAlteredStart(t, guild_found, fetched) ==
    /\ LET event == GetEvent(storage, t.channel)
           outcome == SEAlteredOutcome(event, guild_found, fetched)
       IN  /\ tasks' = IF outcome = "edit"
                       THEN AddTask(RemoveTask(tasks, t),
                                [t EXCEPT !.pc = "edit", !.ne = event.scheduled_event_id])
                       ELSE RemoveTask(tasks, t)
           /\ last' = Step("se_altered", None, Some(t.channel),
                           event.scheduled_event_id, outcome)
    /\ UNCHANGED <<registration_data, storage, scheduled_events, messages, threads,
                   nops>>

\* image_bytes: the bytes of the new attachment are awaited; without one the
\* variable holds scheduled_event.cover_image.read(), which is not awaited, so
\* edit() is handed a coroutine object where the library expects bytes.  What
\* the library does with it is not in this repository: it either takes the
\* edit (the cover stays) or raises before anything is sent.
ImageAccepted(file) == IF file # None THEN {TRUE} ELSE BOOLEAN

\* a slip: the edit does not carry the name
SEAlteredEditKeepsName(t, accepted) ==
    /\ accepted
    /\ LET event == GetEvent(storage, t.channel)
       IN  scheduled_events' = [scheduled_events EXCEPT ![t.ne[1]] =
                [name |-> @.name, description |-> event.description,
                 location |-> Location(event.channel_id),
                 start_time |-> event.utc_start, end_time |-> event.utc_end,
                 image |-> IF t.file # None THEN t.file[1] ELSE @.image]]
    /\ tasks' = RemoveTask(tasks, t)
    /\ last' = Step("se_altered_edit", None, Some(t.channel), t.ne, "edited")
    /\ UNCHANGED <<registration_data, storage, messages, threads, nops>>

\* scheduled_event.edit(name, description, location, start_time, end_time, image)
SEAlteredEdit(t, accepted) ==
    /\ LET event == GetEvent(storage, t.channel)
       IN  scheduled_events' =
             IF accepted
             THEN [scheduled_events EXCEPT ![t.ne[1]] =
                    [name |-> event.name, description |-> event.description,
                     location |-> Location(event.channel_id),
                     start_time |-> event.utc_start, end_time |-> event.utc_end,
                     image |-> IF t.file # None THEN t.file[1] ELSE @.image]]
             ELSE scheduled_events
    /\ tasks' = RemoveTask(tasks, t)
    /\ last' = Step("se_altered_edit", None, Some(t.channel), t.ne,
                    IF accepted THEN "edited" ELSE "raised")
    /\ UNCHANGED <<registration_data, storage, messages, threads, nops>>

-----------------------------------------------------------------------------
(* cogs.ui: the two messages of an event channel *)

\* UI.on_event_created before its first channel.send: the guild, the channel
\* (the view of every event type exists, and the role is read when rendering)
UICreatedOutcome(guild_found, channel_found) ==
    IF ~guild_found THEN "no_guild"
    ELSE IF ~channel_found THEN "no_channel"
    ELSE "sent"

\* ... then channel.send(content=event_representation.header_message(), file=file)
UICreatedHeader(t, guild_found, channel_found) ==
    /\ LET outcome == UICreatedOutcome(guild_found, channel_found)
       IN  /\ IF outcome = "sent"
              THEN /\ messages' = [messages EXCEPT ![t.channel] = Append(@,
                        [kind |-> "header",
                         content |-> header_message(GetEvent(storage, t.channel)),
                         attachment |-> IF t.file = None THEN Some(DEFAULT_IMAGE_PATH)
                                        ELSE t.file,
                         view |-> FALSE])]
                   /\ tasks' = Resume(tasks, t, "body")
              ELSE /\ messages' = messages
                   /\ tasks' = RemoveTask(tasks, t)
           /\ last' = Step("ui_created_header", None, Some(t.channel), None, outcome)
    /\ UNCHANGED <<registration_data, storage, scheduled_events, threads, nops>>

\* channel.send(content=event_representation.body_message(), view=view), then
\* channel.create_thread(name='Discussion', ...)
UICreatedBody(t) ==
    /\ messages' = [messages EXCEPT ![t.channel] = Append(@,
            [kind |-> "body",
             content |-> body_message(GetEvent(storage, t.channel),
                                      get_event_role(GuildRoles)),
             attachment |-> None,
             view |-> TRUE])]
    /\ threads' = [threads EXCEPT ![t.channel] = @ + 1]
    /\ tasks' = RemoveTask(tasks, t)
    /\ last' = Step("ui_created_body", None, Some(t.channel), None, "sent")
    /\ UNCHANGED <<registration_data, storage, scheduled_events, nops>>

\* channel.history(limit=2, oldest_first=True)
History(channel_id) ==
    SubSeq(messages[channel_id], 1,
           IF Len(messages[channel_id]) < 2 THEN Len(messages[channel_id]) ELSE 2)

\* a slip: the number of messages read is not checked
UIAlteredOutcomeUnchecked(channel_id, file, channel_found) ==
    IF ~channel_found THEN "no_channel"
    ELSE IF file # None THEN "attach"
    ELSE "header"

\* UI.on_event_altered up to its first edit: the channel and its first two
\* messages
UIAlteredOutcome(channel_id, file, channel_found) ==
    IF ~channel_found THEN "no_channel"
    ELSE IF Len(History(channel_id)) # 2 THEN "no_messages"
    ELSE IF file # None THEN "attach"
    ELSE "header"

UIAlteredStart(t, channel_found) ==
    /\ LET outcome == UIAlteredOutcome(t.channel, t.file, channel_found)
       IN  /\ tasks' = IF outcome \in {"attach", "header"}
                       THEN Resume(tasks, t, outcome)
                       ELSE RemoveTask(tasks, t)
           /\ last' = Step("ui_altered", None, Some(t.channel), None, outcome)
    /\ UNCHANGED <<registration_data, storage, scheduled_events, messages, threads,
                   nops>>

\* header.edit(attachments=[file])
UIAlteredAttach(t) ==
    /\ messages' = [messages EXCEPT ![t.channel][1].attachment = t.file]
    /\ tasks' = Resume(tasks, t, "header")
    /\ last' = Step("ui_altered_attach", None, Some(t.channel), None, "edited")
    /\ UNCHANGED <<registration_data, storage, scheduled_events, threads, nops>>

\* the guild, then header.edit(content=event_message.header_message())
UIAlteredHeader(t, guild_found) ==
    /\ IF guild_found
       THEN /\ messages' = [messages EXCEPT ![t.channel][1].content =
                                header_message(GetEvent(storage, t.channel))]
            /\ tasks' = Resume(tasks, t, "body")
            /\ last' = Step("ui_altered_header", None, Some(t.channel), None, "edited")
       ELSE /\ messages' = messages
            /\ tasks' = RemoveTask(tasks, t)
            /\ last' = Step("ui_altered_header", None, Some(t.channel), None,
                            "no_guild")
    /\ UNCHANGED <<registration_data, storage, scheduled_events, threads, nops>>

\* a slip: the roster of the event is sorted in place while it is rendered
UIAlteredBodySorting(t) ==
    /\ messages' = [messages EXCEPT ![t.channel][2].content =
                        body_message(GetEvent(storage, t.channel),
                                     get_event_role(GuildRoles))]
    /\ storage' = [storage EXCEPT ![t.channel].registrations =
                        Flatten(split_registrations_by_status(@))]
    /\ tasks' = RemoveTask(tasks, t)
    /\ last' = Step("ui_altered_body", None, Some(t.channel), None, "edited")
    /\ UNCHANGED <<registration_data, scheduled_events, threads, nops>>

\* body.edit(content=event_message.body_message())
UIAlteredBody(t) ==
    /\ messages' = [messages EXCEPT ![t.channel][2].content =
                        body_message(GetEvent(storage, t.channel),
                                     get_event_role(GuildRoles))]
    /\ tasks' = RemoveTask(tasks, t)
    /\ last' = Step("ui_altered_body", None, Some(t.channel), None, "edited")
    /\ UNCHANGED <<registration_data, storage, scheduled_events, threads, nops>>

-----------------------------------------------------------------------------
(* The notifications the rest of the bot sends to the two cogs *)

\* an event is created in a channel (or EventCreated is sent again for it):
\* the event is in the store and both on_event_created listeners are started
EventCreated(channel_id, attachment) ==
    /\ nops < MaxOps
    /\ Load + 2 <= MaxTasks
    /\ \/ /\ channel_id \in Tracked(storage)
          /\ storage[channel_id].scheduled_event_id # None
       \/ Cardinality(Created) + Cardinality(Running("se_created", "start"))
            + Cardinality(Running("se_created", "create")) < MaxNative
    /\ storage' = IF channel_id \in Tracked(storage) THEN storage
                  ELSE StoreEvent(storage, NewEvent(channel_id, DEFAULT_NAME))
    /\ tasks' = Dispatch(tasks, "created", channel_id, attachment)
    /\ last' = Step("event_created", None, Some(channel_id), None, "dispatched")
    /\ nops' = nops + 1
    /\ UNCHANGED <<registration_data, scheduled_events, messages, threads>>

\* the organiser edits the event: both on_event_altered listeners are started
EventAltered(channel_id, name, file) ==
    /\ nops < MaxOps
    /\ Load + 2 <= MaxTasks
    /\ channel_id \in Tracked(storage)
    /\ storage' = [storage EXCEPT ![channel_id].name = name]
    /\ tasks' = Dispatch(tasks, "altered", channel_id, file)
    /\ last' = Step("event_altered", None, Some(channel_id), None, "dispatched")
    /\ nops' = nops + 1
    /\ UNCHANGED <<registration_data, scheduled_events, messages, threads>>

-----------------------------------------------------------------------------
(* The state machine *)

\* the image that comes with an alteration, and with a creation
Files == {None} \cup {Some(i) : i \in Images}
CreationFiles == {None}

\* the scheduled events of the guild that the bot did not create
ForeignEvents ==
    ForeignEventId :>
        [name |-> "Market", description |-> "",
         location |-> <<"s", "e", "e", " ">> \o Location(PersistedChannel),
         start_time |-> UTC_START, end_time |-> UTC_END,
         image |-> DEFAULT_IMAGE_PATH]

\* The bot starts for the first time: nothing is stored, the channels are empty
FreshStart ==
    /\ storage = <<>>
    /\ scheduled_events = ForeignEvents
    /\ messages = [c \in Channels |-> <<>>]
    /\ threads = [c \in Channels |-> 0]

\* what an earlier run may have left of the registrations of an event
PersistedRegistrations ==
    {<<Registration(PersistedUser, Status[4], Some(PersistedJob))>>}

\* The store is durable and the channel and the guild keep what an earlier
\* run left there: an event, its native event, its two messages and its thread.
Persisted(event) ==
        /\ storage = StoreEvent(<<>>, event)
        /\ scheduled_events = Put(ForeignEvents, event.scheduled_event_id[1],
                [name |-> event.name, description |-> event.description,
                 location |-> Location(event.channel_id),
                 start_time |-> event.utc_start, end_time |-> event.utc_end,
                 image |-> DEFAULT_IMAGE_PATH])
        /\ messages = [c \in Channels |->
                IF c # PersistedChannel THEN <<>>
                ELSE << [kind |-> "header", content |-> header_message(event),
                         attachment |-> Some(DEFAULT_IMAGE_PATH), view |-> FALSE],
                        [kind |-> "body",
                         content |-> body_message(event, get_event_role(GuildRoles)),
                         attachment |-> None, view |-> TRUE] >>]
        /\ threads = [c \in Channels |-> IF c = PersistedChannel THEN 1 ELSE 0]

\* The bot starts again, with an event of PersistedChannel in the store.
Restart(registrations) ==
    Persisted([NewEvent(PersistedChannel, DEFAULT_NAME) EXCEPT
                 !.scheduled_event_id = Some(PersistedNativeId),
                 !.registrations = registrations])

\* UI.__init__ and ScheduledEvents.__init__: no pending selection, no handler
\* running
Init ==
    /\ registration_data = <<>>
    /\ tasks = EmptyBag
    /\ last = Step("init", None, None, None, "constructed")
    /\ nops = 0
    /\ reliable \in BOOLEAN
    /\ \/ FreshStart
       \/ \E registrations \in PersistedRegistrations : Restart(registrations)

\* what a lookup of a guild, a channel or a native event may answer
Found == IF reliable THEN {TRUE} ELSE BOOLEAN

Interaction ==
    \E u \in Users, c \in Channels :
        \/ \E s \in Selectable : StatusCallback(u, c, s)
        \/ \E j \in JobTypes : JobCallback(u, c, j)
        \/ JoinCallback(u, c)
        \/ LeaveCallback(u, c)

Notification ==
    \/ \E c \in Channels, f \in CreationFiles : EventCreated(c, f)
    \/ \E c \in Channels, n \in EventNames, f \in Files : EventAltered(c, n, f)
    \/ \E e \in DOMAIN scheduled_events, u \in Users, found \in Found :
            UserAddStart(e, u, found)
    \/ \E e \in DOMAIN scheduled_events, u \in Users, found \in Found :
            UserRemoveStart(e, u, found)

UIStep ==
    \/ \E t \in Running("join", "register") : JoinRegister(t)
    \/ \E t \in Running("ui_created", "start"), g, c \in Found :
            UICreatedHeader(t, g, c)
    \/ \E t \in Running("ui_created", "body") : UICreatedBody(t)
    \/ \E t \in Running("ui_altered", "start"), c \in Found : UIAlteredStart(t, c)
    \/ \E t \in Running("ui_altered", "attach") : UIAlteredAttach(t)
    \/ \E t \in Running("ui_altered", "header"), g \in Found : UIAlteredHeader(t, g)
    \/ \E t \in Running("ui_altered", "body") : UIAlteredBody(t)

ScheduledEventsStep ==
    \/ \E t \in Running("user_add", "send") : UserAddSend(t)
    \/ \E t \in Running("user_add", "register") : UserAddRegister(t)
    \/ \E t \in Running("user_remove", "send") : UserRemoveSend(t)
    \/ \E t \in Running("user_remove", "unregister") : UserRemoveUnregister(t)
    \/ \E t \in Running("se_created", "start"), g \in Found : SECreatedStart(t, g)
    \/ \E t \in Running("se_created", "create") : SECreatedCreate(t)
    \/ \E t \in Running("se_created", "store") : SECreatedStore(t)
    \/ \E t \in Running("se_altered", "start"), g, f \in Found : SEAlteredStart(t, g, f)
    \/ \E t \in Running("se_altered", "edit") :
          \E accepted \in ImageAccepted(t.file) : SEAlteredEdit(t, accepted)

Next ==
    /\ Interaction \/ Notification \/ UIStep \/ ScheduledEventsStep
    /\ UNCHANGED reliable

Spec == Init /\ [][Next]_vars

-----------------------------------------------------------------------------
(* Rendering on its own: the bot starts with a stored event whose roster and *)
(* end time are drawn from bounded sets, and the event is altered (with or   *)
(* without a change) so that its two messages are rendered again.           *)

\* registrations in a roster
MaxRegs == 4

\* The renderer never looks at who a registration belongs to, so the i-th
\* registration of a roster is that of user i; one user carries a job.
RosterOf(statuses) ==
    [i \in 1..Len(statuses) |->
        Registration(i, statuses[i],
                     IF i = PersistedUser THEN Some(PersistedJob) ELSE None)]

RegistrationLists ==
    {RosterOf(statuses) : statuses \in UNION {[1..k -> StatusSet] : k \in 0..MaxRegs}}

\* the event ends an hour, an hour and a half, or an hour and half a minute
\* after its start
EndTimes == {UTC_START + 60 * 60, UTC_END, UTC_START + 60 * 60 + 30}

RenderInit ==
    /\ registration_data = <<>>
    /\ tasks = EmptyBag
    /\ last = Step("init", None, None, None, "constructed")
    /\ nops = 0
    /\ reliable = TRUE
    /\ \E registrations \in RegistrationLists, utc_end \in EndTimes :
        /\ Len(registrations) <= 1 \/ utc_end = UTC_END
        /\ Persisted([NewEvent(PersistedChannel, DEFAULT_NAME) EXCEPT
                        !.scheduled_event_id = Some(PersistedNativeId),
                        !.registrations = registrations,
                        !.utc_end = utc_end])

\* one alteration at a time, each handled to its end by both listeners
RenderNext ==
    /\ \/ \E n \in {DEFAULT_NAME} \cup EventNames :
            tasks = EmptyBag /\ EventAltered(PersistedChannel, n, None)
       \/ \E t \in Running("ui_altered", "start") : UIAlteredStart(t, TRUE)
       \/ \E t \in Running("ui_altered", "header") : UIAlteredHeader(t, TRUE)
       \/ \E t \in Running("ui_altered", "body") : UIAlteredBody(t)
       \/ \E t \in Running("se_altered", "start") : SEAlteredStart(t, TRUE, TRUE)
       \/ \E t \in Running("se_altered", "edit") :
             \E accepted \in ImageAccepted(t.file) : SEAlteredEdit(t, accepted)
    /\ UNCHANGED reliable

RenderSpec == RenderInit /\ [][RenderNext]_vars

-----------------------------------------------------------------------------
(* The bot with a pending selection: the user of the stored registration has *)
(* picked another status and a job in the channel of the event.              *)

CacheInit ==
    /\ registration_data =
         (PersistedUser :> (PersistedChannel :> <<Some(Status[2]), Some(PersistedJob)>>))
    /\ tasks = EmptyBag
    /\ last = Step("init", None, None, None, "constructed")
    /\ nops = 0
    /\ reliable \in BOOLEAN
    /\ \E registrations \in PersistedRegistrations : Restart(registrations)

CacheSpec == CacheInit /\ [][Next]_vars

-----------------------------------------------------------------------------
(* The native listener of EventCreated on its own.  An earlier run left the  *)
(* events of both channels in the store, shown in their channels and without *)
(* native event (its lookups of the guild failed); EventCreated is sent for  *)
(* them again.  The UI listener of the notification shares no state with the *)
(* native one and is left out.                                               *)

\* bot.dispatch('event_created', event, attachment) reaching
\* ScheduledEvents.on_event_created
NativeCreated(channel_id, attachment) ==
    /\ nops < MaxOps
    /\ Load + 1 <= MaxTasks
    /\ channel_id \in Tracked(storage)
    /\ Cardinality(Created) + Cardinality(Running("se_created", "start"))
            + Cardinality(Running("se_created", "create")) < MaxNative
    /\ tasks' = AddTask(tasks, Task("se_created", "start", None, channel_id, NoReg,
                                    attachment, None))
    /\ last' = Step("event_created", None, Some(channel_id), None, "dispatched")
    /\ nops' = nops + 1
    /\ UNCHANGED <<registration_data, storage, scheduled_events, messages, threads>>

CreationInit ==
    /\ registration_data = <<>>
    /\ tasks = EmptyBag
    /\ last = Step("init", None, None, None, "constructed")
    /\ nops = 0
    /\ reliable \in BOOLEAN
    /\ storage = [c \in Channels |-> NewEvent(c, DEFAULT_NAME)]
    /\ scheduled_events = ForeignEvents
    /\ messages = [c \in Channels |->
            << [kind |-> "header", content |-> header_message(NewEvent(c, DEFAULT_NAME)),
                attachment |-> Some(DEFAULT_IMAGE_PATH), view |-> FALSE],
               [kind |-> "body",
                content |-> body_message(NewEvent(c, DEFAULT_NAME),
                                         get_event_role(GuildRoles)),
                attachment |-> None, view |-> TRUE] >>]
    /\ threads = [c \in Channels |-> 1]

CreationNext ==
    /\ \/ \E c \in Channels, f \in Files : NativeCreated(c, f)
       \/ \E t \in Running("se_created", "start"), g \in Found : SECreatedStart(t, g)
       \/ \E t \in Running("se_created", "create") : SECreatedCreate(t)
       \/ \E t \in Running("se_created", "store") : SECreatedStore(t)
    /\ UNCHANGED reliable

CreationSpec == CreationInit /\ [][CreationNext]_vars

-----------------------------------------------------------------------------
(* The channel reference in the location.  The channel id of the one stored  *)
(* event is any id of one, two or three digits; the event is linked to a     *)
(* native event (an earlier run created it) or not yet.  The listeners of    *)
(* ScheduledEvents run on their own: the UI listeners never read a location. *)

\* the largest channel id
MaxChannelId == 110

ChannelIds == 1..MaxChannelId

\* bot.dispatch('event_altered', event, file) reaching
\* ScheduledEvents.on_event_altered
NativeAltered(channel_id, name, file) ==
    /\ nops < MaxOps
    /\ Load + 1 <= MaxTasks
    /\ channel_id \in Tracked(storage)
    /\ storage' = [storage EXCEPT ![channel_id].name = name]
    /\ tasks' = AddTask(tasks, Task("se_altered", "start", None, channel_id, NoReg,
                                    file, None))
    /\ last' = Step("event_altered", None, Some(channel_id), None, "dispatched")
    /\ nops' = nops + 1
    /\ UNCHANGED <<registration_data, scheduled_events, messages, threads>>

LocationInit ==
    /\ registration_data = <<>>
    /\ tasks = EmptyBag
    /\ last = Step("init", None, None, None, "constructed")
    /\ nops = 0
    /\ reliable = TRUE
    /\ \E c \in ChannelIds, linked \in BOOLEAN :
        LET event == [NewEvent(c, DEFAULT_NAME) EXCEPT
                        !.scheduled_event_id =
                            IF linked THEN Some(PersistedNativeId) ELSE None]
        IN  /\ storage = StoreEvent(<<>>, event)
            /\ scheduled_events =
                 IF linked
                 THEN Put(ForeignEvents, PersistedNativeId,
                          [name |-> event.name, description |-> event.description,
                           location |-> Location(event.channel_id),
                           start_time |-> event.utc_start, end_time |-> event.utc_end,
                           image |-> DEFAULT_IMAGE_PATH])
                 ELSE ForeignEvents
            /\ messages = (c :>
                 << [kind |-> "header", content |-> header_message(event),
                     attachment |-> Some(DEFAULT_IMAGE_PATH), view |-> FALSE],
                    [kind |-> "body",
                     content |-> body_message(event, get_event_role(GuildRoles)),
                     attachment |-> None, view |-> TRUE] >>)
            /\ threads = (c :> 1)

LocationNext ==
    /\ \/ \E c \in Tracked(storage), f \in CreationFiles : NativeCreated(c, f)
       \/ \E c \in Tracked(storage), n \in EventNames : NativeAltered(c, n, None)
       \/ \E e \in DOMAIN scheduled_events, u \in Users : UserAddStart(e, u, TRUE)
       \/ \E e \in DOMAIN scheduled_events, u \in Users : UserRemoveStart(e, u, TRUE)
       \/ \E t \in Running("user_add", "send") : UserAddSend(t)
       \/ \E t \in Running("user_add", "register") : UserAddRegister(t)
       \/ \E t \in Running("user_remove", "send") : UserRemoveSend(t)
       \/ \E t \in Running("user_remove", "unregister") : UserRemoveUnregister(t)
       \/ \E t \in Running("se_created", "start") : SECreatedStart(t, TRUE)
       \/ \E t \in Running("se_created", "create") : SECreatedCreate(t)
       \/ \E t \in Running("se_created", "store") : SECreatedStore(t)
       \/ \E t \in Running("se_altered", "start") : SEAlteredStart(t, TRUE, TRUE)
       \/ \E t \in Running("se_altered", "edit") :
             \E accepted \in ImageAccepted(t.file) : SEAlteredEdit(t, accepted)
    /\ UNCHANGED reliable

LocationSpec == LocationInit /\ [][LocationNext]_vars

-----------------------------------------------------------------------------
(* Vocabulary of the properties *)

\* the pending status of a user in a channel; unset also when there is no entry
PendingStatus(u, c) ==
    IF u \in DOMAIN registration_data /\ c \in DOMAIN registration_data[u]
    THEN registration_data[u][c][1] ELSE None

\* the registrations the store holds for a channel, of a user, of the others
RegistrationsIn(st, c) == IF c \in Tracked(st) THEN st[c].registrations ELSE <<>>
RegistrationsOf(st, c, u) == SelectSeq(RegistrationsIn(st, c), LAMBDA r : r.user_id = u)
RegistrationsOfOthers(st, c, u) ==
    SelectSeq(RegistrationsIn(st, c), LAMBDA r : r.user_id # u)

\* the step just taken is an interaction or a notification of this kind
Arrives(op) == nops' = nops + 1 /\ last'.op = op
\* the step just taken is this step of a running handler
Resumes(op) == nops' = nops /\ tasks' # tasks /\ last'.op = op

\* the two handlers that one event_altered notification without image starts
AlteredNotification(c) ==
    SetToBag({Task("ui_altered", "start", None, c, NoReg, None, None),
              Task("se_altered", "start", None, c, NoReg, None, None)})

-----------------------------------------------------------------------------
(* The join and leave buttons *)

\* C1: a join of a user whose pending status is unset (also when the user has
\* no pending entry at all) is answered with the validation error, changes
\* nothing in the store and starts no event_altered handler.
C1_JoinWithoutStatus ==
    [][\A u \in Users, c \in Channels :
        (/\ Arrives("join")
         /\ last'.user = Some(u) /\ last'.channel = Some(c)
         /\ PendingStatus(u, c) = None)
        => /\ last'.outcome = "validation_error"
           /\ storage' = storage
           /\ tasks' = tasks
           /\ messages' = messages /\ scheduled_events' = scheduled_events]_vars

\* a join was refused: the user had made no selection in that channel
C1_Witness ==
    \E u \in Users, c \in Channels :
        /\ last = Step("join", Some(u), Some(c), None, "validation_error")
        /\ registration_data[u][c] = NoReg
        /\ c \in Tracked(storage)

\* C2: the store never holds two registrations of one user for one channel,
\* and when a join or a native-event join is committed for a user the store
\* afterwards holds exactly one registration of that user there, the committed
\* one.
C2_OneRegistrationPerUser ==
    [][/\ \A u \in Users, c \in Channels : Len(RegistrationsOf(storage', c, u)) <= 1
       /\ \A u \in Users, c \in Channels :
            /\ (Resumes("join_register") /\ last'.user = Some(u)
                    /\ last'.channel = Some(c))
               => \E t \in Running("join", "register") :
                    /\ t.user = Some(u) /\ t.channel = c
                    /\ RegistrationsOf(storage', c, u) =
                         << [user_id |-> u, status |-> Value(t.reg[1]),
                             job |-> t.reg[2]] >>
            /\ (Resumes("user_add_register") /\ last'.user = Some(u)
                    /\ last'.channel = Some(c))
               => RegistrationsOf(storage', c, u) =
                    << [user_id |-> u, status |-> "Attending", job |-> None] >>]_vars

\* a second, different registration of the same user was committed: the body
\* still shows the user as rendered from the first one
C2_Witness ==
    \E u \in Users, c \in Tracked(storage) :
        /\ last.op = "join_register" /\ last.user = Some(u) /\ last.channel = Some(c)
        /\ Len(messages[c]) >= 2
        /\ \E i \in 1..Len(messages[c][2].content.lines) :
              /\ messages[c][2].content.lines[i].user_id = u
              /\ messages[c][2].content.lines[i].status # storage[c].registrations[1].status
        /\ Len(storage[c].registrations) = 1
        /\ storage[c].registrations[1].user_id = u

\* C3: a join of a user whose pending status is set is deferred and changes
\* nothing yet; when it resumes it stores Registration(user, pending status,
\* pending job) for the channel of the interaction in place of the user's
\* earlier registration, and in the same step, with the store already written,
\* starts the handlers of exactly one event_altered notification for that
\* channel, without attachment.
C3_JoinCommitsThenNotifies ==
    [][\A u \in Users, c \in Channels :
        /\ (/\ Arrives("join")
            /\ last'.user = Some(u) /\ last'.channel = Some(c)
            /\ PendingStatus(u, c) # None)
           => /\ last'.outcome = "deferred"
              /\ storage' = storage
              /\ tasks' = tasks (+) SetToBag({Task("join", "register", Some(u), c,
                                    registration_data[u][c], None, None)})
        /\ (Resumes("join_register") /\ last'.user = Some(u) /\ last'.channel = Some(c))
           => \E t \in Running("join", "register") :
                /\ t.user = Some(u) /\ t.channel = c
                /\ RegistrationsOf(storage', c, u) =
                     << [user_id |-> u, status |-> t.reg[1][1], job |-> t.reg[2]] >>
                /\ RegistrationsOfOthers(storage', c, u) =
                     RegistrationsOfOthers(storage, c, u)
                /\ \A d \in Channels \ {c} :
                     RegistrationsIn(storage', d) = RegistrationsIn(storage, d)
                /\ tasks' = (tasks (-) SetToBag({t})) (+) AlteredNotification(c)]_vars

\* a join was committed with the status and the job the user had selected, and
\* its two event_altered handlers are about to run
C3_Witness ==
    \E u \in Users, c \in Tracked(storage) :
        /\ last = Step("join_register", Some(u), Some(c), None, "dispatched")
        /\ PendingStatus(u, c) # None
        /\ RegistrationsOf(storage, c, u) =
             << [user_id |-> u, status |-> PendingStatus(u, c)[1],
                 job |-> registration_data[u][c][2]] >>
        /\ AlteredNotification(c) \sqsubseteq tasks

\* C4: the body shows the registrations of the store.  In a run where every
\* guild and channel is found, whenever no handler is running and the channel
\* of a tracked event starts with its header and its body, the text of the body
\* is the body rendered from the event with the registrations the store holds.
C4_RosterInSync ==
    \A c \in Tracked(storage) :
        (/\ reliable
         /\ tasks = EmptyBag
         /\ Len(messages[c]) >= 2
         /\ messages[c][1].kind = "header" /\ messages[c][2].kind = "body")
        => messages[c][2].content =
              body_message(storage[c], get_event_role(GuildRoles))

\* C5: a leave is never refused; it removes the registration of that user in
\* that channel and nothing else (the other users' registrations keep their
\* order, the other channels are untouched), it changes nothing when the user
\* has no registration there, and a second leave would change nothing.
C5_LeaveRemoves ==
    [][\A u \in Users, c \in Channels :
        (Arrives("leave") /\ last'.user = Some(u) /\ last'.channel = Some(c))
        => /\ last'.outcome = "deferred"
           /\ RegistrationsOf(storage', c, u) = <<>>
           /\ RegistrationsOfOthers(storage', c, u) = RegistrationsOfOthers(storage, c, u)
           /\ \A d \in Channels \ {c} :
                RegistrationsIn(storage', d) = RegistrationsIn(storage, d)
           /\ (RegistrationsOf(storage, c, u) = <<>> => storage' = storage)
           /\ Unregister(storage', c, u) = storage'
           /\ tasks' = tasks]_vars

\* a user left whom the body (rendered before) still lists
C5_Witness ==
    \E u \in Users, c \in Tracked(storage) :
        /\ last = Step("leave", Some(u), Some(c), None, "deferred")
        /\ RegistrationsOf(storage, c, u) = <<>>
        /\ Len(messages[c]) >= 2
        /\ \E i \in 1..Len(messages[c][2].content.lines) :
              messages[c][2].content.lines[i].user_id = u

-----------------------------------------------------------------------------
(* Users joining and leaving the native scheduled event *)

\* the store knows no event with this native event
Unassociated(e) ==
    \A c \in Tracked(storage) : storage[c].scheduled_event_id # Some(e)

\* the announcement of a native join
JoinAnnouncement(u) ==
    [kind |-> "registered", content |-> [name |-> u], attachment |-> None,
     view |-> FALSE]

\* C6: a user joining or leaving a native event that no tracked event is
\* linked to is ignored: no message is sent, the store is unchanged and no
\* handler is left running that could do either later.
C6_UnassociatedEventIgnored ==
    [][\A e \in DOMAIN scheduled_events :
        (/\ Arrives("user_add") \/ Arrives("user_remove")
         /\ last'.ne = Some(e)
         /\ Unassociated(e))
        => /\ last'.outcome = "ignored"
           /\ messages' = messages
           /\ storage' = storage
           /\ tasks' = tasks]_vars

\* a user joined a native event of the guild that mentions the channel of a
\* tracked event but is not the event's own, and was ignored
C6_Witness ==
    /\ last.op = "user_add" /\ last.outcome = "ignored"
    /\ last.ne = Some(ForeignEventId)
    /\ ParseLocation(scheduled_events[ForeignEventId].location) \in Tracked(storage)

\* C7: a user joining the native event of a tracked event.  When the channel
\* read from the location is found, the join announcement is posted there
\* first, with the store untouched, and then Registration(user, ATTENDING, no
\* job) replaces whatever registration the user had in that channel, the other
\* registrations staying as they are; a handler only gets to the commit by
\* posting the announcement.  When the channel is not found nothing is posted,
\* nothing is stored and the handler ends.
C7_NativeJoinRegisters ==
    [][\A u \in Users :
        /\ \A e \in DOMAIN scheduled_events :
            (/\ Arrives("user_add")
             /\ last'.user = Some(u) /\ last'.ne = Some(e)
             /\ ~Unassociated(e))
            => /\ messages' = messages /\ storage' = storage
               /\ last'.outcome \in {"resolved", "no_channel"}
               /\ reliable => last'.outcome = "resolved"
               /\ last'.outcome = "no_channel" => tasks' = tasks
               /\ last'.outcome = "resolved" =>
                    tasks' = tasks (+) SetToBag({Task("user_add", "send", Some(u),
                                ParseLocation(scheduled_events[e].location),
                                NoReg, None, Some(e))})
        /\ \A c \in Channels :
            /\ (Resumes("user_add_send") /\ last'.user = Some(u)
                    /\ last'.channel = Some(c))
               => /\ messages' = [messages EXCEPT ![c] = Append(@, JoinAnnouncement(u))]
                  /\ storage' = storage
                  /\ \E t \in Running("user_add", "send") :
                        /\ t.user = Some(u) /\ t.channel = c
                        /\ tasks' = (tasks (-) SetToBag({t}))
                                      (+) SetToBag({[t EXCEPT !.pc = "register"]})
            /\ (Resumes("user_add_register") /\ last'.user = Some(u)
                    /\ last'.channel = Some(c))
               => /\ RegistrationsOf(storage', c, u) =
                       << [user_id |-> u, status |-> "Attending", job |-> None] >>
                  /\ RegistrationsOfOthers(storage', c, u) =
                       RegistrationsOfOthers(storage, c, u)
                  /\ \A d \in Channels \ {c} :
                        RegistrationsIn(storage', d) = RegistrationsIn(storage, d)
                  /\ messages' = messages
                  /\ \E t \in Running("user_add", "register") :
                        /\ t.user = Some(u) /\ t.channel = c
                        /\ tasks' = tasks (-) SetToBag({t})
        /\ \A t \in BagToSet(tasks') :
            (/\ t.kind = "user_add" /\ t.pc = "register"
             /\ CopiesIn(t, tasks') > CopiesIn(t, tasks))
            => Resumes("user_add_send")]_vars

\* a native join replaced a registration with another status and a job (the
\* body, rendered before, still shows it) after its announcement was posted
C7_Witness ==
    \E u \in Users, c \in Tracked(storage) :
        /\ last.op = "user_add_register" /\ last.user = Some(u)
        /\ last.channel = Some(c)
        /\ storage[c].registrations =
             << [user_id |-> u, status |-> "Attending", job |-> None] >>
        /\ \E i \in 1..Len(messages[c]) : messages[c][i] = JoinAnnouncement(u)
        /\ \E i \in 1..Len(messages[c][2].content.lines) :
              /\ messages[c][2].content.lines[i].user_id = u
              /\ messages[c][2].content.lines[i].status # "Attending"
              /\ messages[c][2].content.lines[i].job_emoji # None

-----------------------------------------------------------------------------
(* The native scheduled event of an event *)

\* C8: EventCreated for an event that is already linked to a native event:
\* the listener ends at the guard; no native event is created or changed, the
\* linkage and the rest of the store stay as they are.
C8_LinkedEventNotRecreated ==
    [][\A c \in Tracked(storage) :
        (/\ Resumes("se_created") /\ last'.channel = Some(c)
         /\ storage[c].scheduled_event_id # None)
        => /\ last'.outcome = "linked"
           /\ scheduled_events' = scheduled_events
           /\ storage' = storage
           /\ \E t \in Running("se_created", "start") :
                 t.channel = c /\ tasks' = tasks (-) SetToBag({t})]_vars

\* EventCreated was sent for a linked event and its native event is still the
\* only one the bot has created
C8_Witness ==
    \E c \in Tracked(storage) :
        /\ last = Step("se_created", None, Some(c), None, "linked")
        /\ storage[c].scheduled_event_id # None
        /\ Created = {storage[c].scheduled_event_id[1]}

\* C9: EventCreated for an event that is not linked.  With the guild found the
\* listener goes on to create exactly one native event, and when it resumes it
\* sets the linkage of the event to the id of that native event and stores the
\* event, the rest of the store staying as it is, so that the store then knows
\* the native event as associated.  With the guild not found the listener ends:
\* no native event, no linkage, no store write.
C9_UnlinkedEventGetsNativeEvent ==
    [][\A c \in Tracked(storage) :
        /\ (/\ Resumes("se_created") /\ last'.channel = Some(c)
            /\ storage[c].scheduled_event_id = None)
           => /\ last'.outcome \in {"create", "no_guild"}
              /\ reliable => last'.outcome = "create"
              /\ scheduled_events' = scheduled_events /\ storage' = storage
              /\ \E t \in Running("se_created", "start") :
                    /\ t.channel = c
                    /\ last'.outcome = "no_guild" => tasks' = tasks (-) SetToBag({t})
                    /\ last'.outcome = "create" =>
                         tasks' = (tasks (-) SetToBag({t}))
                                    (+) SetToBag({[t EXCEPT !.pc = "create"]})
        /\ (Resumes("se_created_create") /\ last'.channel = Some(c))
           => /\ storage' = storage
              /\ \E id \in NativeIds \ DOMAIN scheduled_events :
                    /\ last'.ne = Some(id)
                    /\ DOMAIN scheduled_events' = DOMAIN scheduled_events \cup {id}
                    /\ \A e \in DOMAIN scheduled_events :
                          scheduled_events'[e] = scheduled_events[e]
                    /\ scheduled_events'[id].location = Location(c)
        /\ (Resumes("se_created_store") /\ last'.channel = Some(c))
           => /\ scheduled_events' = scheduled_events
              /\ \E t \in Running("se_created", "store") :
                    /\ t.channel = c /\ t.ne # None /\ last'.ne = t.ne
                    /\ storage' = [storage EXCEPT ![c].scheduled_event_id = t.ne]
                    /\ ~Unassociated(t.ne[1])'
                    /\ tasks' = tasks (-) SetToBag({t})]_vars

\* a new event got its native event: the linkage is stored and names a native
\* event whose location is the channel of the event
C9_Witness ==
    \E c \in Tracked(storage) :
        /\ last.op = "se_created_store" /\ last.channel = Some(c)
        /\ c # PersistedChannel
        /\ storage[c].scheduled_event_id = last.ne
        /\ last.ne[1] \in Created
        /\ scheduled_events[last.ne[1]].location = Location(c)

\* C10: the native path of EventAltered.  The listener goes on to the edit
\* only for a linked event whose native event exists, and always does when
\* everything is found; otherwise it ends.  It never touches a native event
\* before the edit; the edit ends the listener and writes name, description,
\* location, time range and image of the one linked native event (without a new
\* image the call may instead raise and write nothing); and nothing else ever
\* changes a native event that exists.
C10_NativeEdit ==
    [][/\ \A c \in Tracked(storage) :
            /\ (Resumes("se_altered") /\ last'.channel = Some(c))
               => LET link == storage[c].scheduled_event_id
                  IN  /\ scheduled_events' = scheduled_events
                      /\ link = None => last'.outcome = "not_linked"
                      /\ (link # None /\ link[1] \notin DOMAIN scheduled_events)
                            => last'.outcome \in {"no_guild", "no_scheduled_event"}
                      /\ (link # None /\ link[1] \in DOMAIN scheduled_events)
                            => /\ last'.outcome \in {"no_guild", "no_scheduled_event",
                                                     "edit"}
                               /\ reliable => last'.outcome = "edit"
                      /\ \E t \in Running("se_altered", "start") :
                            /\ t.channel = c
                            /\ last'.outcome # "edit" => tasks' = tasks (-) SetToBag({t})
                            /\ last'.outcome = "edit" =>
                                 tasks' = (tasks (-) SetToBag({t})) (+)
                                    SetToBag({[t EXCEPT !.pc = "edit", !.ne = link]})
            /\ (Resumes("se_altered_edit") /\ last'.channel = Some(c))
               => \E t \in Running("se_altered", "edit") :
                    /\ t.channel = c /\ last'.ne = t.ne
                    /\ tasks' = tasks (-) SetToBag({t})
                    /\ \/ /\ last'.outcome = "edited"
                          /\ scheduled_events' = [scheduled_events EXCEPT ![t.ne[1]] =
                                [name |-> storage[c].name,
                                 description |-> storage[c].description,
                                 location |-> Location(c),
                                 start_time |-> storage[c].utc_start,
                                 end_time |-> storage[c].utc_end,
                                 image |-> IF t.file = None THEN @.image
                                           ELSE t.file[1]]]
                       \/ /\ last'.outcome = "raised"
                          /\ t.file = None
                          /\ scheduled_events' = scheduled_events
       /\ \A e \in DOMAIN scheduled_events :
            /\ e \in DOMAIN scheduled_events'
            /\ scheduled_events'[e] # scheduled_events[e]
                  => Resumes("se_altered_edit") /\ last'.ne = Some(e)]_vars

\* an alteration with a new name and a new image reached the native event
C10_Witness ==
    \E c \in Tracked(storage) :
        /\ last.op = "se_altered_edit" /\ last.channel = Some(c)
        /\ storage[c].scheduled_event_id = last.ne
        /\ storage[c].name # DEFAULT_NAME
        /\ scheduled_events[last.ne[1]].name = storage[c].name
        /\ scheduled_events[last.ne[1]].image \in Images

-----------------------------------------------------------------------------
(* The two messages of an event channel *)

\* C11: when the channel of an altered event holds fewer than two messages,
\* the message listener of EventAltered ends where it reads the history: no
\* message is edited (content or attachment), and the store and the native
\* events are left as they are.
C11_AlteredWithoutTwoMessages ==
    [][\A c \in Channels :
        (/\ Resumes("ui_altered") /\ last'.channel = Some(c)
         /\ Len(messages[c]) < 2)
        => /\ last'.outcome \in {"no_channel", "no_messages"}
           /\ reliable => last'.outcome = "no_messages"
           /\ messages' = messages
           /\ storage' = storage
           /\ scheduled_events' = scheduled_events
           /\ \E t \in Running("ui_altered", "start") :
                 t.channel = c /\ tasks' = tasks (-) SetToBag({t})]_vars

\* the event of a channel without messages was altered, and the listener found
\* the channel and ended at the history
C11_Witness ==
    \E c \in Tracked(storage) :
        /\ last = Step("ui_altered", None, Some(c), None, "no_messages")
        /\ Len(messages[c]) < 2

-----------------------------------------------------------------------------
(* The rendered roster *)

\* how many registrations of a list have a status
RECURSIVE Count(_, _)
Count(registrations, status) ==
    IF registrations = <<>> THEN 0
    ELSE (IF Head(registrations).status = status THEN 1 ELSE 0)
         + Count(Tail(registrations), status)

\* the channels that show an event: header and body are posted
Shown == {c \in Tracked(storage) :
            /\ Len(messages[c]) >= 2
            /\ messages[c][1].kind = "header" /\ messages[c][2].kind = "body"}

\* C12: the counts of the body.  For every roster, guaranteed is the number
\* of ATTENDING plus the number of BENCH registrations, maximum is guaranteed
\* plus the number of TENTATIVE and of LATE registrations; so guaranteed is at
\* most maximum, and maximum is the number of registrations of the event.
C12_AttendeeCounts ==
    \A c \in Shown :
        LET body == messages[c][2].content
            registrations == storage[c].registrations
        IN  /\ body.guaranteed = Count(registrations, "Attending")
                                   + Count(registrations, "Bench")
            /\ body.maximum = body.guaranteed + Count(registrations, "Tentative")
                                + Count(registrations, "Late")
            /\ body.guaranteed <= body.maximum
            /\ body.maximum = Len(registrations)

\* a roster with one registration of each status, in the order ATTENDING,
\* BENCH, TENTATIVE, LATE, was rendered again: 2 - 4 attendees
C12_Witness ==
    \E c \in Shown :
        /\ last.op = "ui_altered_body" /\ last.channel = Some(c)
        /\ [i \in 1..Len(storage[c].registrations) |->
                storage[c].registrations[i].status] = Status
        /\ messages[c][2].content.guaranteed = 2
        /\ messages[c][2].content.maximum = 4

\* the place of a status in the declaration of Status, and the place of a
\* user's registration in a roster
Rank(status) == CHOOSE i \in 1..Len(Status) : Status[i] = status
Place(registrations, user_id) ==
    CHOOSE i \in 1..Len(registrations) : registrations[i].user_id = user_id

\* C13: the lines of the body.  There is exactly one line per registration of
\* the event (its user, its status, a job emoji exactly when it has a job), and
\* the lines are the registrations of the store sorted by status in the order
\* ATTENDING, BENCH, TENTATIVE, LATE, registrations of the same status staying
\* in the order the store has them in.
C13_RosterLines ==
    \A c \in Shown :
        LET lines == messages[c][2].content.lines
            registrations == storage[c].registrations
        IN  /\ Len(lines) = Len(registrations)
            /\ \A i \in 1..Len(lines) :
                \E j \in 1..Len(registrations) :
                    /\ lines[i].user_id = registrations[j].user_id
                    /\ lines[i].status = registrations[j].status
                    /\ lines[i].job_emoji = None <=> registrations[j].job = None
            /\ \A i, j \in 1..Len(lines) :
                i < j =>
                    /\ lines[i].user_id # lines[j].user_id
                    /\ Rank(lines[i].status) <= Rank(lines[j].status)
                    /\ lines[i].status = lines[j].status =>
                          Place(registrations, lines[i].user_id)
                            < Place(registrations, lines[j].user_id)

\* the roster LATE, ATTENDING, LATE was rendered again: the second registration
\* comes first, and the two late ones follow in the order of the store
C13_Witness ==
    \E c \in Shown :
        /\ last.op = "ui_altered_body" /\ last.channel = Some(c)
        /\ [i \in 1..Len(storage[c].registrations) |->
                storage[c].registrations[i].status] = <<"Late", "Attending", "Late">>
        /\ [i \in 1..Len(messages[c][2].content.lines) |->
                Place(storage[c].registrations,
                      messages[c][2].content.lines[i].user_id)] = <<2, 1, 3>>

\* C14: the duration line of the body.  The body has a duration line exactly
\* when the time from start to end is not 60 minutes, and the line shows that
\* time in minutes; from 14:00 to 15:00 there is no line, from 14:00 to 15:30
\* the line shows 90 minutes.
C14_DurationLine ==
    \A c \in Shown :
        LET body == messages[c][2].content
            event == storage[c]
            seconds == event.utc_end - event.utc_start
        IN  /\ body.duration = None <=> seconds = 60 * 60
            /\ body.duration # None =>
                  /\ body.duration[1].seconds \in 0..59
                  /\ body.duration[1].minutes * 60 + body.duration[1].seconds = seconds
            /\ (event.utc_start = 14 * 3600 /\ event.utc_end = 15 * 3600)
                  => body.duration = None
            /\ (event.utc_start = 14 * 3600 /\ event.utc_end = 15 * 3600 + 30 * 60)
                  => body.duration = Some([minutes |-> 90, seconds |-> 0])

\* an event from 14:00 to 15:30 was rendered again with its 90 minutes
C14_Witness ==
    \E c \in Shown :
        /\ last.op = "ui_altered_body" /\ last.channel = Some(c)
        /\ storage[c].utc_end - storage[c].utc_start = 90 * 60
        /\ messages[c][2].content.duration = Some([minutes |-> 90, seconds |-> 0])

\* C15: rendering is a function of the event and the role, and changes
\* nothing.  A step that renders the header or the body leaves the store (the
\* event and its registrations), the pending selections and the native events
\* as they are; rendering the header of an event whose name the header already
\* shows gives the same header again, and rendering the body of an event whose
\* roster and times have not changed gives the same body again.
C15_RenderingIsPure ==
    [][\A c \in Shown :
        /\ (Resumes("ui_altered_header") /\ last'.channel = Some(c))
           => /\ storage' = storage
              /\ registration_data' = registration_data
              /\ scheduled_events' = scheduled_events
              /\ messages[c][1].content.name = storage[c].name
                    => messages' = messages
        /\ (Resumes("ui_altered_body") /\ last'.channel = Some(c))
           => /\ storage' = storage
              /\ registration_data' = registration_data
              /\ scheduled_events' = scheduled_events
              /\ messages' = messages]_vars

\* header and body of an unchanged event with a roster that is not in the
\* order of its lines were rendered a second time
C15_Witness ==
    \E c \in Shown :
        /\ last.op = "ui_altered_body" /\ last.channel = Some(c)
        /\ storage[c].name = DEFAULT_NAME
        /\ messages[c][1].content.name = DEFAULT_NAME
        /\ Len(storage[c].registrations) >= 2
        /\ messages[c][2].content.lines[1].user_id
             # storage[c].registrations[1].user_id

-----------------------------------------------------------------------------
(* The pending selections *)

\* the pending tuple of a user in a channel, if there is one
Pending(rd, u, c) ==
    IF u \in DOMAIN rd /\ c \in DOMAIN rd[u] THEN Some(rd[u][c]) ELSE None

\* a slot (1: status, 2: job) of the pending tuple; unset when there is none
Slot(rd, u, c, i) == IF Pending(rd, u, c) = None THEN None ELSE rd[u][c][i]

\* C16: choosing a status leaves the user with a pending tuple for the channel
\* whose status slot is the chosen status and whose job slot is what it was
\* (unset if there was no tuple); choosing a job does the same with the slots
\* exchanged.  Neither changes the tuple of another user or channel, the store,
\* the messages or the native events, and neither starts a handler.
C16_SelectionOnlySetsItsSlot ==
    [][\A u \in Users, c \in Channels :
        /\ (Arrives("status") /\ last'.user = Some(u) /\ last'.channel = Some(c))
           => Pending(registration_data', u, c) =
                Some(<<Some(last'.value), Slot(registration_data, u, c, 2)>>)
        /\ (Arrives("job") /\ last'.user = Some(u) /\ last'.channel = Some(c))
           => Pending(registration_data', u, c) =
                Some(<<Slot(registration_data, u, c, 1), Some(last'.value)>>)
        /\ ((Arrives("status") \/ Arrives("job"))
                /\ last'.user = Some(u) /\ last'.channel = Some(c))
           => /\ \A v \in Users, d \in Channels :
                    <<v, d>> # <<u, c>> =>
                        Pending(registration_data', v, d)
                          = Pending(registration_data, v, d)
              /\ storage' = storage
              /\ tasks' = tasks
              /\ messages' = messages
              /\ scheduled_events' = scheduled_events]_vars

\* a user who had picked a job picked a status: both are pending, and the
\* store has no registration of the user
C16_Witness ==
    \E u \in Users, c \in Tracked(storage) :
        /\ last.op = "status" /\ last.user = Some(u) /\ last.channel = Some(c)
        /\ registration_data[u][c] = <<Some(last.value), Some(PersistedJob)>>
        /\ RegistrationsOf(storage, c, u) = <<>>

\* C17: join and leave do not touch the pending selections.  No step ever
\* removes a pending tuple or unsets a slot that was set; a leave, an accepted
\* join and the commit of a join leave the whole cache as it is; and a join of
\* a user with a pending status is accepted with the tuple the cache holds,
\* which is then what the commit stores, whether or not that tuple was
\* committed before.
C17_JoinAndLeaveKeepSelections ==
    [][/\ \A u \in Users, c \in Channels :
            /\ Pending(registration_data, u, c) # None
                  => Pending(registration_data', u, c) # None
            /\ \A i \in {1, 2} :
                  Slot(registration_data, u, c, i) # None
                      => Slot(registration_data', u, c, i) # None
            /\ (/\ Arrives("join") /\ last'.user = Some(u) /\ last'.channel = Some(c)
                /\ Slot(registration_data, u, c, 1) # None)
               => /\ last'.outcome = "deferred"
                  /\ tasks' = tasks (+) SetToBag({Task("join", "register", Some(u), c,
                                        registration_data[u][c], None, None)})
            /\ (Resumes("join_register") /\ last'.user = Some(u)
                    /\ last'.channel = Some(c))
               => \E t \in Running("join", "register") :
                    /\ t.user = Some(u) /\ t.channel = c
                    /\ tasks' (+) SetToBag({t}) = tasks (+) AlteredNotification(c)
                    /\ RegistrationsOf(storage', c, u) =
                         << [user_id |-> u, status |-> t.reg[1][1], job |-> t.reg[2]] >>
       /\ (\/ Arrives("leave")
           \/ Resumes("join_register")
           \/ Arrives("join") /\ last'.outcome = "deferred")
          => registration_data' = registration_data]_vars

\* a selection made once was committed, shown in the body, and committed again
\* by a second join without a new selection
C17_Witness ==
    \E u \in Users, c \in Tracked(storage) :
        /\ last.op = "join_register" /\ last.user = Some(u) /\ last.channel = Some(c)
        /\ nops = 2
        /\ Slot(registration_data, u, c, 1) # None
        /\ storage[c].registrations =
             << [user_id |-> u, status |-> registration_data[u][c][1][1],
                 job |-> registration_data[u][c][2]] >>
        /\ messages[c][2].content.lines =
             << RegistrationMessage(storage[c].registrations[1]) >>

-----------------------------------------------------------------------------
(* Handlers running side by side *)

\* how many messages of a kind a channel holds
KindCount(c, kind) ==
    Cardinality({i \in 1..Len(messages[c]) : messages[c][i].kind = kind})

\* C18: the header and the body come first.  Once the message listener of
\* EventCreated has finished posting in a channel (the one header and the one
\* body of the event are there and no such listener is still running for the
\* channel), the first message of the channel is that header and the second is
\* that body, whatever else has been posted in the channel meanwhile.
C18_HeaderAndBodyFirst ==
    \A c \in Channels :
        (/\ KindCount(c, "header") = 1 /\ KindCount(c, "body") = 1
         /\ \A t \in BagToSet(tasks) : ~(t.kind = "ui_created" /\ t.channel = c))
        => /\ messages[c][1].kind = "header"
           /\ messages[c][2].kind = "body"

\* the native events the bot has created for the event of a channel
NativeEventsOf(c) == {id \in Created : scheduled_events[id].location = Location(c)}

\* C19: the linkage guard prevents a second creation.  However many
\* EventCreated notifications are sent for an event and however their handlers
\* interleave, the bot creates at most one native event for the event.
C19_AtMostOneNativeEvent ==
    \A c \in Channels : Cardinality(NativeEventsOf(c)) <= 1

\* C20: the message listener of EventAltered and the guild.  When the guild
\* is not found the listener ends and has changed nothing: the step changes no
\* message, and the header does not carry the image of this alteration either.
\* When the guild is found the listener edits the text of the header, and only
\* that; it then edits the text of the body, and only that, and ends; both
\* texts are rendered from the event of the channel.
C20_MissingGuildChangesNothing ==
    [][\A c \in Channels :
        /\ (Resumes("ui_altered_header") /\ last'.channel = Some(c))
           => \E t \in Running("ui_altered", "header") :
                /\ t.channel = c
                /\ last'.outcome \in {"no_guild", "edited"}
                /\ last'.outcome = "no_guild" =>
                      /\ messages' = messages
                      /\ tasks' = tasks (-) SetToBag({t})
                      /\ t.file # None => messages[c][1].attachment # t.file
                /\ last'.outcome = "edited" =>
                      /\ messages' = [messages EXCEPT ![c][1].content =
                                         [emoji |-> <<"<:", storage[c].event_type, ":>">>,
                                          name |-> storage[c].name]]
                      /\ tasks' = (tasks (-) SetToBag({t}))
                                    (+) SetToBag({[t EXCEPT !.pc = "body"]})
        /\ (Resumes("ui_altered_body") /\ last'.channel = Some(c))
           => \E t \in Running("ui_altered", "body") :
                /\ t.channel = c
                /\ tasks' = tasks (-) SetToBag({t})
                /\ messages'[c][2].content.description = storage[c].description
                /\ messages'[c][2].content.maximum = Len(storage[c].registrations)
                /\ messages' = [messages EXCEPT ![c][2].content = messages'[c][2].content]
        /\ \A t \in BagToSet(tasks') :
            (/\ t.kind = "ui_altered" /\ t.pc = "body"
             /\ CopiesIn(t, tasks') > CopiesIn(t, tasks))
            => Resumes("ui_altered_header") /\ last'.outcome = "edited"]_vars

\* the join handlers of a user in a channel that wait at their defer()
SuspendedJoins(u, c) ==
    {t \in Running("join", "register") : t.user = Some(u) /\ t.channel = c}

\* C21: a join commits the tuple it read when it started.  A join handler
\* enters its wait holding the pending tuple of its user and channel as the
\* cache had it at that moment; a status or job selection made while the join
\* waits changes the cache only, not the store and not what the join holds; and
\* the resumed join stores exactly the tuple it holds, whatever the cache says
\* by then.  A status selection and a job selection of the same user in the same
\* channel, one right after the other in either order, leave the tuple with both
\* chosen values.
C21_JoinCommitsItsOwnRead ==
    [][/\ \A t \in BagToSet(tasks') :
            (t.kind = "join" /\ CopiesIn(t, tasks') > CopiesIn(t, tasks))
            => /\ Arrives("join")
               /\ last'.user = t.user /\ last'.channel = Some(t.channel)
               /\ t.pc = "register"
               /\ Pending(registration_data, t.user[1], t.channel) = Some(t.reg)
       /\ \A u \in Users, c \in Channels :
            /\ (/\ Arrives("status") \/ Arrives("job")
                /\ last'.user = Some(u) /\ last'.channel = Some(c)
                /\ SuspendedJoins(u, c) # {})
               => /\ tasks' = tasks
                  /\ storage' = storage
            /\ (Resumes("join_register") /\ last'.user = Some(u)
                    /\ last'.channel = Some(c))
               => \E t \in SuspendedJoins(u, c) :
                    /\ CopiesIn(t, tasks') = CopiesIn(t, tasks) - 1
                    /\ storage' = Register(storage, c,
                                           [user_id |-> u, status |-> t.reg[1][1],
                                            job |-> t.reg[2]])
            /\ (/\ Arrives("job")
                /\ last'.user = Some(u) /\ last'.channel = Some(c)
                /\ last.op = "status" /\ last.user = Some(u) /\ last.channel = Some(c))
               => Pending(registration_data', u, c) =
                    Some(<<Some(last.value), Some(last'.value)>>)
            /\ (/\ Arrives("status")
                /\ last'.user = Some(u) /\ last'.channel = Some(c)
                /\ last.op = "job" /\ last.user = Some(u) /\ last.channel = Some(c))
               => Pending(registration_data', u, c) =
                    Some(<<Some(last'.value), Some(last.value)>>)]_vars

\* a join was committed with the status the user had when pressing the button,
\* although the user has picked another status since
C21_Witness ==
    \E u \in Users, c \in Tracked(storage) :
        /\ last = Step("join_register", Some(u), Some(c), None, "dispatched")
        /\ Slot(registration_data, u, c, 1) # None
        /\ Len(RegistrationsOf(storage, c, u)) = 1
        /\ RegistrationsOf(storage, c, u)[1].status # registration_data[u][c][1][1]
        /\ RegistrationsOf(storage, c, u)[1].job = registration_data[u][c][2]

-----------------------------------------------------------------------------
(* The location of a native event *)

\* the tracked events a native event is linked to
LinkedTo(st, e) == {c \in Tracked(st) : st[c].scheduled_event_id = Some(e)}

\* every native event that a tracked event is linked to carries a location
\* that reads back as the channel id of that event
LocationsReadBack(st, se) ==
    \A e \in DOMAIN se : \A c \in LinkedTo(st, e) :
        /\ se[e].location = Location(c)
        /\ ParseLocation(se[e].location) = c

\* C22: the location round trip.  The native listeners of EventCreated and
\* EventAltered write the channel id of their event into the location of its
\* native event, and that location reads back as the same channel id; in every
\* state the location of a native event that a tracked event is linked to reads
\* back as the channel id of that event.  So a native join or leave that is not
\* ignored goes on with the channel of the event its native event is linked to,
\* and it is in that channel that it then registers or unregisters the user.
C22_LocationRoundTrip ==
    [][/\ LocationsReadBack(storage, scheduled_events)
       /\ LocationsReadBack(storage', scheduled_events')
       /\ Resumes("se_created_create")
            => /\ scheduled_events'[last'.ne[1]].location = Location(last'.channel[1])
               /\ ParseLocation(scheduled_events'[last'.ne[1]].location)
                    = last'.channel[1]
       /\ (Resumes("se_altered_edit") /\ last'.outcome = "edited")
            => /\ scheduled_events'[last'.ne[1]].location = Location(last'.channel[1])
               /\ ParseLocation(scheduled_events'[last'.ne[1]].location)
                    = last'.channel[1]
       /\ ((Arrives("user_add") \/ Arrives("user_remove"))
                /\ last'.outcome = "resolved")
            => \E c \in Tracked(storage) :
                 /\ LinkedTo(storage, last'.ne[1]) = {c}
                 /\ \E t \in BagToSet(tasks') :
                      /\ tasks' = tasks (+) SetToBag({t})
                      /\ t.kind = last'.op /\ t.pc = "send"
                      /\ t.user = last'.user /\ t.ne = last'.ne
                      /\ t.channel = c
       /\ Resumes("user_add_register")
            => \E t \in Running("user_add", "register") :
                 /\ tasks' = tasks (-) SetToBag({t})
                 /\ storage' = Register(storage, t.channel,
                                        Registration(t.user[1], ATTENDING, None))
       /\ Resumes("user_remove_unregister")
            => \E t \in Running("user_remove", "unregister") :
                 /\ tasks' = tasks (-) SetToBag({t})
                 /\ storage' = Unregister(storage, t.channel, t.user[1])
       /\ \A t \in BagToSet(tasks') :
            (t.kind \in {"user_add", "user_remove"} /\ t.pc # "send")
            => \E s \in BagToSet(tasks) \cup BagToSet(tasks') :
                 /\ s.kind = t.kind /\ s.channel = t.channel
                 /\ s.user = t.user /\ s.ne = t.ne
                 /\ s = t \/ s.pc = "send"]_vars

\* an event in a channel with a three-digit id was altered, its native event
\* edited with the location written anew, and a user who then joined the native
\* event is registered in that channel
C22_Witness ==
    \E u \in Users, c \in Tracked(storage), e \in NativeIds :
        /\ last = Step("user_add_register", Some(u), Some(c), Some(e), "registered")
        /\ c = 101
        /\ storage[c].scheduled_event_id = Some(e)
        /\ scheduled_events[e].name \in EventNames
        /\ scheduled_events[e].location = <<"<", "#", "1", "0", "1", ">">>
        /\ storage[c].registrations = <<Registration(u, ATTENDING, None)>>

====
